---------------------------- MODULE Spec2Model ----------------------------
(***************************************************************************)
(* University timetable: the time-slot generator, the schedule generator  *)
(* and the constraint validator of services/scheduler.py                  *)
(* (TimetableScheduler), over the relational store of                     *)
(* models/database_models.py, and the handlers of main.py that call them. *)
(*                                                                         *)
(* Times of day are minutes since midnight.  A SQL NULL / Python None in  *)
(* an id column is Null; a query's .first() that finds no row is NoRow.   *)
(***************************************************************************)
EXTENDS Integers, Sequences, FiniteSets, TLC

\* ------------------------------------------------------------------ bounds
MaxUnits == 2
MaxRooms == 2
MaxEntries == 2

\* --------------------------------------------------------- program values
Null == 0
NoRow == [id |-> Null]
AttemptCap == 100
LastDay == 5

Time(h, m) == h * 60 + m

Min(a, b) == IF a <= b THEN a ELSE b

\* ------------------------------------------------------- the stored tables
\* schools: SPAS and SHS, as create_schools_and_departments makes them.
schools ==
    << [id |-> 1, code |-> "SPAS"],
       [id |-> 2, code |-> "SHS"] >>

\* departments: one of each school, and one whose school_id is NULL
\* (school_id is a nullable foreign key).
departments ==
    << [id |-> 1, school_id |-> 1],
       [id |-> 2, school_id |-> 2],
       [id |-> 3, school_id |-> Null] >>

\* student_groups: (department, year) pairs; (2, 2) has no group, and one
\* group has a NULL department_id (a nullable foreign key).
student_groups ==
    << [id |-> 1, department_id |-> 1, year_level |-> 1],
       [id |-> 2, department_id |-> 1, year_level |-> 2],
       [id |-> 3, department_id |-> 2, year_level |-> 1],
       [id |-> 4, department_id |-> 3, year_level |-> 1],
       [id |-> 5, department_id |-> Null, year_level |-> 1] >>

LecturerIds == {1, 2}
StudentGroupIds == {student_groups[k].id : k \in 1..Len(student_groups)}

\* --------------------------------------------------------------- the state
VARIABLES
    units,                \* rows of table units, in query order
    rooms,                \* rows of table rooms, in query order
    time_slots,           \* rows of table time_slots, in query order
    db_timetable_entries, \* rows of table timetable_entries
    db_commits,           \* db.commit() calls made so far
    pc,                   \* generate_schedule: idle, loop, trial, done, raised
                          \* (http: no request is being served)
    sorted_units,         \* the priority order of the run
    i,                    \* index into sorted_units of the unit in hand
    scheduled,            \* the unit in hand has been placed
    attempts,             \* trials made for the unit in hand
    max_attempts,         \* its attempt budget
    lecturer_schedule,    \* lecturer id -> set of occupied slot keys
    room_schedule,        \* room id -> set of occupied slot keys
    student_schedule,     \* student group id -> set of occupied slot keys
    timetable_entries,    \* entries accumulated by the run
    returned,             \* the list generate_schedule returned
    arg,                  \* an entry list a caller holds (external data)
    vpc,                  \* validate_constraints: idle, returned, raised
    validated,            \* the list last passed to validate_constraints
    validation,           \* the ValidationResult it returned
    tpc,                  \* generate_time_slots: idle, days, commit, returned
    day,                  \* its loop variable
    slot_list,            \* its local list time_slots
    catalog,              \* the list generate_time_slots returned
    time_slot_seq,        \* the last id the time_slots id sequence gave
    suspended,            \* the locals of a second, suspended call of
                          \* generate_schedule (NoRun: there is none)
    trials                \* history: the passes of the while loop a run has
                          \* made over all its units, where they are counted

store == <<units, rooms, time_slots, db_timetable_entries, db_commits>>
run == <<pc, sorted_units, i, scheduled, attempts, max_attempts,
         lecturer_schedule, room_schedule, student_schedule,
         timetable_entries, returned>>
validator == <<arg, vpc, validated, validation>>
slotgen == <<tpc, day, slot_list, catalog, time_slot_seq>>
aside == <<suspended, trials>>
vars == <<store, run, validator, slotgen, aside>>

\* ------------------------------------------------------ generate_time_slots
spas_sessions ==
    << <<Time(7, 0), Time(10, 0)>>,
       <<Time(10, 30), Time(13, 30)>>,
       <<Time(14, 0), Time(17, 0)>>,
       <<Time(16, 0), Time(19, 0)>> >>

shs_sessions ==
    << <<Time(7, 0), Time(9, 0)>>,
       <<Time(9, 0), Time(11, 0)>>,
       <<Time(11, 0), Time(13, 0)>>,
       <<Time(14, 0), Time(16, 0)>>,
       <<Time(16, 0), Time(18, 0)>>,
       <<Time(17, 0), Time(19, 0)>> >>

\* The slots of one day: the first ns sessions of each table, SPAS first.
DaySlots(d, ns) ==
    [k \in 1..Min(ns, Len(spas_sessions)) |->
        [day_of_week |-> d, start_time |-> spas_sessions[k][1],
         end_time |-> spas_sessions[k][2], session_type |-> "spas_3h"]]
    \o
    [k \in 1..Min(ns, Len(shs_sessions)) |->
        [day_of_week |-> d, start_time |-> shs_sessions[k][1],
         end_time |-> shs_sessions[k][2], session_type |-> "shs_2h"]]

RECURSIVE SlotsThrough(_, _)
SlotsThrough(d, ns) ==
    IF d = 0 THEN << >>
    ELSE SlotsThrough(d - 1, ns) \o DaySlots(d, ns)

\* What generate_time_slots builds: days 1..5, every session of both tables.
generate_time_slots == SlotsThrough(LastDay, Len(shs_sessions))

\* The rows a commit of the list s makes: ids are given in insertion order.
WithIds(s) ==
    [k \in 1..Len(s) |->
        [id |-> k, day_of_week |-> s[k].day_of_week,
         start_time |-> s[k].start_time, end_time |-> s[k].end_time,
         session_type |-> s[k].session_type]]

\* ------------------------------------------------------------ store lookups
MinOf(S) == CHOOSE x \in S : \A y \in S : x <= y

\* .first() of a filtered query: the first of the rows of table at the
\* indexes idx, or NoRow when the filter passes none.
First(table, idx) == IF idx = {} THEN NoRow ELSE table[MinOf(idx)]

Found(row) == row.id # Null

\* Mutant of StudentGroupOf: the year level is not compared.
StudentGroupOfDepartment(unit) ==
    First(student_groups,
          {k \in 1..Len(student_groups) :
              student_groups[k].department_id = unit.department_id})

\* DBStudentGroup by (department_id, year_level); == None renders IS NULL,
\* so a NULL department_id matches a group whose department_id is NULL.
StudentGroupOf(unit) ==
    First(student_groups,
          {k \in 1..Len(student_groups) :
              /\ student_groups[k].department_id = unit.department_id
              /\ student_groups[k].year_level = unit.year_level})

\* DBDepartment by primary key: no row has a NULL id.
DepartmentOf(unit) ==
    First(departments,
          {k \in 1..Len(departments) :
              departments[k].id = unit.department_id})

SchoolOf(dept) ==
    First(schools, {k \in 1..Len(schools) : schools[k].id = dept.school_id})

UnitById(uid) == First(units, {k \in 1..Len(units) : units[k].id = uid})

RoomById(rid) == First(rooms, {k \in 1..Len(rooms) : rooms[k].id = rid})

\* The time slot an entry's time_slot_id refers to.
TimeSlotById(sid) ==
    First(time_slots, {k \in 1..Len(time_slots) : time_slots[k].id = sid})

\* -------------------------------------------------------- generate_schedule
\* sorted(units, key=lambda u: (not u.requires_lab, u.year_level)):
\* a precedes b in key order (False sorts before True).
KeyLess(a, b) ==
    \/ a.requires_lab /\ ~b.requires_lab
    \/ a.requires_lab = b.requires_lab /\ a.year_level < b.year_level

RECURSIVE InsertByKey(_, _)
\* u put into the sorted list s, behind every element whose key is not greater.
InsertByKey(u, s) ==
    IF s = << >> THEN <<u>>
    ELSE IF KeyLess(u, Head(s)) THEN <<u>> \o s
    ELSE <<Head(s)>> \o InsertByKey(u, Tail(s))

\* Mutant of SortedUnits: the units keep their input order.
SortedUnitsInputOrder(us) == us

RECURSIVE SortedUnits(_)
\* Python's sorted is stable: equal keys keep their input order.
SortedUnits(us) ==
    IF us = << >> THEN << >>
    ELSE InsertByKey(us[Len(us)], SortedUnits(SubSeq(us, 1, Len(us) - 1)))

\* Mutant of SessionTypeOf: every school is given the short sessions.
SessionTypeOfShort(school) == "shs_2h"

SessionTypeOf(school) == IF school.code = "SPAS" THEN "spas_3h" ELSE "shs_2h"

\* Mutant of SuitableRooms: the lab filter is lost.
SuitableRoomsAnyType(unit) ==
    IF unit.requires_lab
    THEN rooms
    ELSE SelectSeq(rooms, LAMBDA r : r.room_type = "normal")

\* Mutant of SuitableRooms: a unit that needs no lab is given every room.
SuitableRoomsNonLabAny(unit) ==
    IF unit.requires_lab
    THEN SelectSeq(rooms, LAMBDA r : r.room_type = "lab")
    ELSE rooms

\* Mutant of SuitableRooms: every unit is given the normal rooms.
SuitableRoomsNormalOnly(unit) ==
    SelectSeq(rooms, LAMBDA r : r.room_type = "normal")

SuitableRooms(unit) ==
    IF unit.requires_lab
    THEN SelectSeq(rooms, LAMBDA r : r.room_type = "lab")
    ELSE SelectSeq(rooms, LAMBDA r : r.room_type = "normal")

AvailableSlots(session_type) ==
    SelectSeq(time_slots, LAMBDA ts : ts.session_type = session_type)

\* Mutant of MaxAttempts: the cap of 100 is lost.
MaxAttemptsNoCap(available_slots, suitable_rooms) ==
    Len(available_slots) * Len(suitable_rooms)

MaxAttempts(available_slots, suitable_rooms) ==
    Min(AttemptCap, Len(available_slots) * Len(suitable_rooms))

\* Mutant of SlotKey: the key tells the session types apart.
SlotKeyWithType(slot) ==
    <<slot.day_of_week, slot.start_time, slot.session_type>>

SlotKey(slot) == <<slot.day_of_week, slot.start_time>>

\* The three membership tests of one trial.
\* Mutant of LecturerConflict: the membership test is inverted.
LecturerConflictInverted(unit, slot_key) ==
    slot_key \notin lecturer_schedule[unit.lecturer_id]

LecturerConflict(unit, slot_key) ==
    slot_key \in lecturer_schedule[unit.lecturer_id]

RoomConflict(room, slot_key) ==
    slot_key \in room_schedule[room.id]

\* Mutant of StudentConflict: the student index is never consulted.
StudentConflictNever(student_group, slot_key) == FALSE

StudentConflict(student_group, slot_key) ==
    slot_key \in student_schedule[student_group.id]

\* Mutant of Conflict: the lecturer's conflict does not count.
ConflictNoLecturer(unit, room, student_group, slot_key) ==
    \/ RoomConflict(room, slot_key)
    \/ StudentConflict(student_group, slot_key)

Conflict(unit, room, student_group, slot_key) ==
    \/ LecturerConflict(unit, slot_key)
    \/ RoomConflict(room, slot_key)
    \/ StudentConflict(student_group, slot_key)

\* Mutant of NewEntry: the room's id is written as the lecturer's.
NewEntryRoomAsLecturer(unit, room, slot, student_group) ==
    [unit_id |-> unit.id, lecturer_id |-> room.id,
     room_id |-> room.id, time_slot_id |-> slot.id,
     student_group_id |-> student_group.id]

\* Lines 217-223: the entry of a placement.
NewEntry(unit, room, slot, student_group) ==
    [unit_id |-> unit.id, lecturer_id |-> unit.lecturer_id,
     room_id |-> room.id, time_slot_id |-> slot.id,
     student_group_id |-> student_group.id]

\* The unit in hand and what the loop body resolves for it.
Unit == sorted_units[i]
UnitSession == SessionTypeOf(SchoolOf(DepartmentOf(Unit)))

EmptySchedule(ids) == [k \in ids |-> {}]
RoomIds == {rooms[k].id : k \in 1..Len(rooms)}

\* Mutant of GenerateStart: the test for an empty rooms table is lost.
GenerateStartNoRoomTest ==
    /\ pc = "idle"
    /\ IF units = << >> \/ time_slots = << >>
       THEN /\ pc' = "done"
            /\ returned' = << >>
            /\ UNCHANGED <<sorted_units, i, timetable_entries,
                           lecturer_schedule, room_schedule, student_schedule>>
       ELSE /\ pc' = "loop"
            /\ sorted_units' = SortedUnits(units)
            /\ i' = 1
            /\ timetable_entries' = << >>
            /\ lecturer_schedule' = EmptySchedule(LecturerIds)
            /\ room_schedule' = EmptySchedule(RoomIds)
            /\ student_schedule' = EmptySchedule(StudentGroupIds)
            /\ UNCHANGED returned
    /\ UNCHANGED <<store, scheduled, attempts, max_attempts, validator,
                   slotgen, aside>>

\* Lines 122-157: read the tables; an empty one ends the call with [].
GenerateStart ==
    /\ pc = "idle"
    /\ IF units = << >> \/ time_slots = << >> \/ rooms = << >>
       THEN /\ pc' = "done"
            /\ returned' = << >>
            /\ UNCHANGED <<sorted_units, i, timetable_entries,
                           lecturer_schedule, room_schedule, student_schedule>>
       ELSE /\ pc' = "loop"
            /\ sorted_units' = SortedUnits(units)
            /\ i' = 1
            /\ timetable_entries' = << >>
            /\ lecturer_schedule' = EmptySchedule(LecturerIds)
            /\ room_schedule' = EmptySchedule(RoomIds)
            /\ student_schedule' = EmptySchedule(StudentGroupIds)
            /\ UNCHANGED returned
    /\ UNCHANGED <<store, scheduled, attempts, max_attempts, validator,
                   slotgen, aside>>

\* Lines 159-201: the head of the loop body for the unit in hand.
UnitSetup ==
    /\ pc = "loop"
    /\ i <= Len(sorted_units)
    /\ LET student_group == StudentGroupOf(Unit)
           dept == DepartmentOf(Unit)
       IN  IF ~Found(student_group)
           THEN \* continue
                /\ i' = i + 1
                /\ UNCHANGED <<pc, scheduled, attempts, max_attempts>>
           ELSE IF ~Found(dept) \/ ~Found(SchoolOf(dept))
           THEN \* dept.school_id, school.code: AttributeError on None
                /\ pc' = "raised"
                /\ UNCHANGED <<i, scheduled, attempts, max_attempts>>
           ELSE IF SuitableRooms(Unit) = << >>
                   \/ AvailableSlots(UnitSession) = << >>
           THEN \* continue
                /\ i' = i + 1
                /\ UNCHANGED <<pc, scheduled, attempts, max_attempts>>
           ELSE /\ pc' = "trial"
                /\ scheduled' = FALSE
                /\ attempts' = 0
                /\ max_attempts' = MaxAttempts(AvailableSlots(UnitSession),
                                               SuitableRooms(Unit))
                /\ UNCHANGED i
    /\ UNCHANGED <<store, sorted_units, timetable_entries, lecturer_schedule,
                   room_schedule, student_schedule, returned, validator,
                   slotgen, aside>>

\* Mutant of WhileTest: one pass more than the budget.
WhileTestOneMore(unit_scheduled, attempts_made, budget) ==
    ~unit_scheduled /\ attempts_made <= budget

\* Line 203: the test of the while loop.
WhileTest(unit_scheduled, attempts_made, budget) ==
    ~unit_scheduled /\ attempts_made < budget

\* Mutant of Attempted: the pass is not counted.
AttemptedNotCounted(attempts_made) == attempts_made

\* Line 244: attempts += 1.
Attempted(attempts_made) == attempts_made + 1

\* Mutants of Occupy: the key replaces the keys held; no key is added.
OccupyReplace(schedule, id, slot_key) == [schedule EXCEPT ![id] = {slot_key}]

OccupyNothing(schedule, id, slot_key) == schedule

\* Lines 228-230: schedule[id].add(slot_key) on a defaultdict(set).
Occupy(schedule, id, slot_key) ==
    [schedule EXCEPT ![id] = @ \union {slot_key}]

\* Lines 203-247: one pass of the while loop with the pair random.choice
\* drew, then the loop test; the for loop moves on when the while ends.
Trial(slot, room) ==
    /\ pc = "trial"
    /\ WhileTest(scheduled, attempts, max_attempts)
    /\ LET student_group == StudentGroupOf(Unit)
           slot_key == SlotKey(slot)
       IN  IF ~Conflict(Unit, room, student_group, slot_key)
           THEN /\ timetable_entries' =
                      Append(timetable_entries,
                             NewEntry(Unit, room, slot, student_group))
                /\ lecturer_schedule' =
                      Occupy(lecturer_schedule, Unit.lecturer_id, slot_key)
                /\ room_schedule' = Occupy(room_schedule, room.id, slot_key)
                /\ student_schedule' =
                      Occupy(student_schedule, student_group.id, slot_key)
                /\ scheduled' = TRUE
           ELSE UNCHANGED <<timetable_entries, lecturer_schedule,
                            room_schedule, student_schedule, scheduled>>
    /\ attempts' = Attempted(attempts)
    /\ IF ~WhileTest(scheduled', attempts', max_attempts)
       THEN pc' = "loop" /\ i' = i + 1
       ELSE UNCHANGED <<pc, i>>
    /\ trials' = IF trials.counted
                 THEN [trials EXCEPT !.made = @ + 1]
                 ELSE trials
    /\ UNCHANGED <<store, sorted_units, max_attempts, returned, validator,
                   slotgen, suspended>>

SeqElems(s) == {s[k] : k \in 1..Len(s)}

TrialStep ==
    /\ pc = "trial"
    /\ \E slot \in SeqElems(AvailableSlots(UnitSession)) :
       \E room \in SeqElems(SuitableRooms(Unit)) :
          Trial(slot, room)

\* Mutant of Stored: the rows stored before are lost.
StoredAlone(stored, added) == added

\* Lines 252-253: the table after add_all(timetable_entries) and commit.
Stored(stored, added) == stored \o added

\* Lines 249-256: add_all, commit, return.
GenerateFinish ==
    /\ pc = "loop"
    /\ i > Len(sorted_units)
    /\ db_timetable_entries' = Stored(db_timetable_entries, timetable_entries)
    /\ db_commits' = db_commits + 1
    /\ returned' = timetable_entries
    /\ pc' = "done"
    /\ UNCHANGED <<units, rooms, time_slots, sorted_units, i, scheduled,
                   attempts, max_attempts, lecturer_schedule, room_schedule,
                   student_schedule, timetable_entries, validator,
                   slotgen, aside>>

\* ----------------------------------------------------- validate_constraints
LecturerText == "Lecturer double-booked in time slot"
RoomText == "Room double-booked in time slot"
StudentText == "Student group double-booked in time slot"
LabText == "Lab unit assigned to non-lab room"

\* Mutant of DoubleBooked: the message leaves the time slot out.
DoubleBookedNoSlot(who, slot_id) ==
    [text |-> who, time_slot_id |-> Null,
     unit_code |-> Null, room_name |-> Null]

\* A conflict string: its fixed text and the values the f-string puts in
\* (Null where the text has no such value).
DoubleBooked(who, slot_id) ==
    [text |-> who, time_slot_id |-> slot_id,
     unit_code |-> Null, room_name |-> Null]

LabMismatch(unit, room) ==
    [text |-> LabText, time_slot_id |-> Null,
     unit_code |-> unit.code, room_name |-> room.name]

\* Mutant of SlotIdsInOrder: one key for each entry.
SlotIdsOfEntries(entries, seen) ==
    [k \in 1..Len(entries) |-> entries[k].time_slot_id]

RECURSIVE SlotIdsInOrder(_, _)
\* The keys of slot_bookings in insertion order: each time_slot_id at its
\* first occurrence (seen: the ids met so far).
SlotIdsInOrder(entries, seen) ==
    IF entries = << >> THEN << >>
    ELSE IF Head(entries).time_slot_id \in seen
    THEN SlotIdsInOrder(Tail(entries), seen)
    ELSE <<Head(entries).time_slot_id>>
         \o SlotIdsInOrder(Tail(entries),
                           seen \union {Head(entries).time_slot_id})

\* slot_bookings[slot_id]
SlotBookings(entries, slot_id) ==
    SelectSeq(entries, LAMBDA e : e.time_slot_id = slot_id)

\* len(set(ids)) != len(ids)
HasDuplicate(ids) == Cardinality(SeqElems(ids)) # Len(ids)

\* Mutant of SlotConflicts: the room check is lost.
SlotConflictsNoRoom(entries, slot_id) ==
    LET es == SlotBookings(entries, slot_id)
        lecturers == [k \in 1..Len(es) |-> es[k].lecturer_id]
        students == [k \in 1..Len(es) |-> es[k].student_group_id]
    IN  (IF HasDuplicate(lecturers)
         THEN <<DoubleBooked(LecturerText, slot_id)>>
         ELSE << >>)
        \o
        (IF HasDuplicate(students)
         THEN <<DoubleBooked(StudentText, slot_id)>>
         ELSE << >>)

\* Lines 90-101: the conflicts of one time slot.
SlotConflicts(entries, slot_id) ==
    LET es == SlotBookings(entries, slot_id)
        lecturers == [k \in 1..Len(es) |-> es[k].lecturer_id]
        room_ids == [k \in 1..Len(es) |-> es[k].room_id]
        students == [k \in 1..Len(es) |-> es[k].student_group_id]
    IN  (IF HasDuplicate(lecturers)
         THEN <<DoubleBooked(LecturerText, slot_id)>>
         ELSE << >>)
        \o
        (IF HasDuplicate(room_ids)
         THEN <<DoubleBooked(RoomText, slot_id)>>
         ELSE << >>)
        \o
        (IF HasDuplicate(students)
         THEN <<DoubleBooked(StudentText, slot_id)>>
         ELSE << >>)

RECURSIVE DoubleBookings(_, _)
\* Lines 89-101: the loop over slot_bookings.items().
DoubleBookings(entries, slot_ids) ==
    IF slot_ids = << >> THEN << >>
    ELSE SlotConflicts(entries, Head(slot_ids))
         \o DoubleBookings(entries, Tail(slot_ids))

\* Mutant of LabConflict: a room that is no stored row counts as no lab.
LabConflictMissingRoom(entry) ==
    LET unit == UnitById(entry.unit_id)
        room == RoomById(entry.room_id)
    IN  IF Found(unit) /\ unit.requires_lab
           /\ (~Found(room) \/ room.room_type # "lab")
        THEN <<[text |-> LabText, time_slot_id |-> Null,
                unit_code |-> unit.code,
                room_name |-> IF Found(room) THEN room.name ELSE Null]>>
        ELSE << >>

\* Lines 105-110: the lab check of one entry.
LabConflict(entry) ==
    LET unit == UnitById(entry.unit_id)
        room == RoomById(entry.room_id)
    IN  IF Found(unit) /\ Found(room)
        THEN IF unit.requires_lab /\ room.room_type # "lab"
             THEN <<LabMismatch(unit, room)>>
             ELSE << >>
        ELSE << >>

\* Mutant of LabConflicts: the check stops at the first entry.
LabConflictsFirstOnly(entries) ==
    IF entries = << >> THEN << >> ELSE LabConflict(Head(entries))

RECURSIVE LabConflicts(_)
\* Lines 104-110: the loop over timetable_entries.
LabConflicts(entries) ==
    IF entries = << >> THEN << >>
    ELSE LabConflict(Head(entries)) \o LabConflicts(Tail(entries))

Conflicts(entries) ==
    DoubleBookings(entries, SlotIdsInOrder(entries, {}))
    \o LabConflicts(entries)

\* Mutant of IsValid: one conflict is let through.
IsValidLenient(conflicts) == Len(conflicts) <= 1

\* Lines 112-116
IsValid(conflicts) == Len(conflicts) = 0

validate_constraints(entries) ==
    LET conflicts == Conflicts(entries)
    IN  [is_valid |-> IsValid(conflicts),
         conflicts |-> conflicts,
         warnings |-> << >>]

\* Mutant of Validate: the call commits the session.
ValidateAndCommit(entries) ==
    /\ vpc' = "returned"
    /\ validated' = entries
    /\ validation' = validate_constraints(entries)
    /\ db_commits' = db_commits + 1
    /\ UNCHANGED <<units, rooms, time_slots, db_timetable_entries, run, arg,
                   slotgen, aside>>

\* A call of validate_constraints on the list the caller passes: only
\* queries, no write to the store, to the list or to a run's state.
Validate(entries) ==
    /\ vpc' = "returned"
    /\ validated' = entries
    /\ validation' = validate_constraints(entries)
    /\ UNCHANGED <<store, run, arg, slotgen, aside>>

\* The callers: GET /api/timetable/validate passes the stored entries;
\* a caller of the core passes the list generate_schedule returned, or its
\* own list (arg).
ValidateStored == Validate(db_timetable_entries)
ValidateReturned == pc = "done" /\ Validate(returned)
ValidateArg == Validate(arg)

\* ------------------------------------------------------------ the snapshots
\* The columns of a unit the scheduler reads.  Units of department 1 (SPAS)
\* may need a lab, units of department 2 (SHS) never do, as create_units
\* makes them; department 3 has no school and a NULL department_id no row.
UnitShapes ==
    [department_id : {1}, year_level : {1, 2},
     requires_lab : BOOLEAN, lecturer_id : LecturerIds]
    \union
    [department_id : {2}, year_level : {1, 2},
     requires_lab : {FALSE}, lecturer_id : LecturerIds]
    \union
    [department_id : {3, Null}, year_level : {1},
     requires_lab : {FALSE}, lecturer_id : {1}]

\* Table units with the rows shapes[1..n]: id is the primary key, code is
\* unique.
UnitRows(shapes) ==
    [k \in 1..Len(shapes) |->
        [id |-> k, code |-> k,
         department_id |-> shapes[k].department_id,
         year_level |-> shapes[k].year_level,
         requires_lab |-> shapes[k].requires_lab,
         lecturer_id |-> shapes[k].lecturer_id]]

\* Table rooms as create_rooms fills it: the normal rooms, then the labs.
RoomRows(normal, lab) ==
    [k \in 1..(normal + lab) |->
        [id |-> k, name |-> k,
         room_type |-> IF k <= normal THEN "normal" ELSE "lab"]]

SessionTypes == {"spas_3h", "shs_2h"}

\* Table time_slots: Monday's first two sessions of each table (the SPAS
\* and the SHS session at 7:00 share their start), or only the slots of
\* some session types.
SlotRows(types) ==
    WithIds(SelectSeq(SlotsThrough(1, 2),
                      LAMBDA ts : ts.session_type \in types))

SeqsUpTo(S, n) == UNION {[1..m -> S] : m \in 0..n}

InitRun ==
    /\ pc = "idle"
    /\ sorted_units = << >>
    /\ i = 0
    /\ scheduled = FALSE
    /\ attempts = 0
    /\ max_attempts = 0
    /\ lecturer_schedule = EmptySchedule(LecturerIds)
    /\ room_schedule = EmptySchedule(RoomIds)
    /\ student_schedule = EmptySchedule(StudentGroupIds)
    /\ timetable_entries = << >>
    /\ returned = << >>

InitValidator ==
    /\ vpc = "idle"
    /\ validated = << >>
    /\ validation = validate_constraints(<< >>)

\* No call of generate_time_slots yet; the stored slots hold the ids the
\* sequence has given so far.
InitSlotGen ==
    /\ tpc = "idle"
    /\ day = 0
    /\ slot_list = << >>
    /\ catalog = << >>
    /\ time_slot_seq = Len(time_slots)

\* No second call; the trials are not counted.
NoRun == [pc |-> "none"]

InitAside ==
    /\ suspended = NoRun
    /\ trials = [counted |-> FALSE, made |-> 0]

Init ==
    /\ \E shapes \in SeqsUpTo(UnitShapes, MaxUnits) : units = UnitRows(shapes)
    /\ \E normal \in 0..MaxRooms : \E lab \in 0..(MaxRooms - normal) :
          rooms = RoomRows(normal, lab)
    /\ \E types \in SUBSET SessionTypes : time_slots = SlotRows(types)
    /\ db_timetable_entries = << >>
    /\ db_commits = 0
    /\ InitRun
    /\ arg = << >>
    /\ InitValidator
    /\ InitSlotGen
    /\ InitAside

Next ==
    \/ GenerateStart
    \/ UnitSetup
    \/ TrialStep
    \/ GenerateFinish
    \/ ValidateReturned

Spec == Init /\ [][Next]_vars

\* Units of lecturer 1 in department 1 (SPAS), of either lecturer in
\* department 2 (SHS), and one in department 3, which has no school.
GeneratorShapes ==
    [department_id : {1}, year_level : {1, 2},
     requires_lab : BOOLEAN, lecturer_id : {1}]
    \union
    [department_id : {2}, year_level : {1},
     requires_lab : {FALSE}, lecturer_id : LecturerIds]
    \union
    [department_id : {2}, year_level : {2},
     requires_lab : {FALSE}, lecturer_id : {1}]
    \union
    [department_id : {3}, year_level : {1},
     requires_lab : {FALSE}, lecturer_id : {1}]

\* A run of generate_schedule on its own, over the snapshots of these
\* units whose stored slots are of both session types or of spas_3h only.
InitG ==
    /\ \E shapes \in SeqsUpTo(GeneratorShapes, MaxUnits) :
          units = UnitRows(shapes)
    /\ \E normal \in 0..MaxRooms : \E lab \in 0..(MaxRooms - normal) :
          rooms = RoomRows(normal, lab)
    /\ \E types \in {SessionTypes, {"spas_3h"}} : time_slots = SlotRows(types)
    /\ db_timetable_entries = << >>
    /\ db_commits = 0
    /\ InitRun
    /\ arg = << >>
    /\ InitValidator
    /\ InitSlotGen
    /\ InitAside

NextG ==
    \/ GenerateStart
    \/ UnitSetup
    \/ TrialStep
    \/ GenerateFinish

SpecG == InitG /\ [][NextG]_vars

\* ------------------------------------------- the validator on any entry list
\* A store of one lab unit and one other unit, one normal room and one lab.
ValidatorUnits ==
    UnitRows(<< [department_id |-> 1, year_level |-> 1,
                 requires_lab |-> TRUE, lecturer_id |-> 1],
                [department_id |-> 2, year_level |-> 1,
                 requires_lab |-> FALSE, lecturer_id |-> 2] >>)

ValidatorRooms == RoomRows(1, 1)

\* Entries a caller may hold: ids 1 and 2 are stored rows, 3 is no row
\* (unit 1 needs a lab, room 1 is normal and room 2 a lab).
EntryShapes ==
    [unit_id : {1, 2, 3}, lecturer_id : LecturerIds, room_id : {1, 2, 3},
     time_slot_id : {1, 2}, student_group_id : {1, 2}]

InitV ==
    /\ units = ValidatorUnits
    /\ rooms = ValidatorRooms
    /\ time_slots = SlotRows(SessionTypes)
    /\ db_timetable_entries = << >>
    /\ db_commits = 0
    /\ InitRun
    /\ arg \in SeqsUpTo(EntryShapes, MaxEntries)
    /\ InitValidator
    /\ InitSlotGen
    /\ InitAside

NextV == ValidateArg

SpecV == InitV /\ [][NextV]_vars

\* ---------------------------- validation while a generation run is going on
\* The validator store, a caller's list of at most one entry, and every
\* call of validate_constraints interleaved with a run of generate_schedule.
InitC ==
    /\ units = ValidatorUnits
    /\ rooms = ValidatorRooms
    /\ time_slots = SlotRows(SessionTypes)
    /\ db_timetable_entries = << >>
    /\ db_commits = 0
    /\ InitRun
    /\ arg \in SeqsUpTo(EntryShapes, 1)
    /\ InitValidator
    /\ InitSlotGen
    /\ InitAside

NextC ==
    \/ GenerateStart
    \/ UnitSetup
    \/ TrialStep
    \/ GenerateFinish
    \/ ValidateStored
    \/ ValidateReturned
    \/ ValidateArg

SpecC == InitC /\ [][NextC]_vars

\* ------------------------------------------------------ generate_time_slots
MaxCommits == 4

\* The rows a commit of the list s adds when the id sequence stands at seq.
RowsFrom(s, seq) ==
    [k \in 1..Len(s) |->
        [id |-> seq + k, day_of_week |-> s[k].day_of_week,
         start_time |-> s[k].start_time, end_time |-> s[k].end_time,
         session_type |-> s[k].session_type]]

\* Lines 24-45: a call of generate_time_slots; the list starts empty.
\* POST /api/initialize/sample-data makes this call (main.py lines 77-78)
\* after generate_sample_data, which writes no time slot and deletes none.
TimeSlotsStart ==
    /\ tpc \in {"idle", "returned"}
    /\ db_commits < MaxCommits
    /\ tpc' = "days"
    /\ day' = 1
    /\ slot_list' = << >>
    /\ UNCHANGED <<store, run, validator, catalog, time_slot_seq, aside>>

\* Mutant of TimeSlotsDay: every slot of the day is tagged spas_3h.
TimeSlotsDayOneTag ==
    /\ tpc = "days"
    /\ slot_list' =
          slot_list \o
          [k \in 1..Len(DaySlots(day, Len(shs_sessions))) |->
              [DaySlots(day, Len(shs_sessions))[k]
                  EXCEPT !.session_type = "spas_3h"]]
    /\ IF day < LastDay
       THEN day' = day + 1 /\ UNCHANGED tpc
       ELSE tpc' = "commit" /\ UNCHANGED day
    /\ UNCHANGED <<store, run, validator, catalog, time_slot_seq, aside>>

\* Lines 46-63: one pass of the loop over the days: the day's SPAS
\* sessions, then its SHS sessions.
TimeSlotsDay ==
    /\ tpc = "days"
    /\ slot_list' = slot_list \o DaySlots(day, Len(shs_sessions))
    /\ IF day < LastDay
       THEN day' = day + 1 /\ UNCHANGED tpc
       ELSE tpc' = "commit" /\ UNCHANGED day
    /\ UNCHANGED <<store, run, validator, catalog, time_slot_seq, aside>>

\* Lines 65-68: add_all, commit, return the list.
TimeSlotsFinish ==
    /\ tpc = "commit"
    /\ time_slots' = time_slots \o RowsFrom(slot_list, time_slot_seq)
    /\ time_slot_seq' = time_slot_seq + Len(slot_list)
    /\ db_commits' = db_commits + 1
    /\ catalog' = RowsFrom(slot_list, time_slot_seq)
    /\ tpc' = "returned"
    /\ UNCHANGED <<units, rooms, db_timetable_entries, run, validator,
                   day, slot_list, aside>>

\* main.py lines 389-399: POST /api/debug/regenerate-time-slots deletes
\* the stored slots, commits and calls generate_time_slots.
regenerate_time_slots ==
    /\ tpc \in {"idle", "returned"}
    /\ db_commits < MaxCommits
    /\ time_slots' = << >>
    /\ db_commits' = db_commits + 1
    /\ tpc' = "days"
    /\ day' = 1
    /\ slot_list' = << >>
    /\ UNCHANGED <<units, rooms, db_timetable_entries, run, validator,
                   catalog, time_slot_seq, aside>>

\* The stored slots before a call: none, or a catalog an earlier call
\* stored.
InitT ==
    /\ units = ValidatorUnits
    /\ rooms = ValidatorRooms
    /\ time_slots \in {<< >>, WithIds(generate_time_slots)}
    /\ db_timetable_entries = << >>
    /\ db_commits = 0
    /\ InitRun
    /\ arg = << >>
    /\ InitValidator
    /\ InitSlotGen
    /\ InitAside

NextT ==
    \/ TimeSlotsStart
    \/ TimeSlotsDay
    \/ TimeSlotsFinish
    \/ regenerate_time_slots

SpecT == InitT /\ [][NextT]_vars

\* ------------------------------------------------ POST /api/timetable/generate
HandlerShapes ==
    { [department_id |-> 1, year_level |-> 1,
       requires_lab |-> TRUE, lecturer_id |-> 1],
      [department_id |-> 2, year_level |-> 1,
       requires_lab |-> FALSE, lecturer_id |-> 1],
      [department_id |-> 3, year_level |-> 1,
       requires_lab |-> FALSE, lecturer_id |-> 1] }

\* Mutant of generate_timetable: the stored entries are not cleared.
generate_timetableNoClear ==
    /\ pc = "http"
    /\ db_commits < MaxCommits
    /\ db_commits' = db_commits + 1
    /\ pc' = "idle"
    /\ sorted_units' = << >>
    /\ i' = 0
    /\ scheduled' = FALSE
    /\ attempts' = 0
    /\ max_attempts' = 0
    /\ lecturer_schedule' = EmptySchedule(LecturerIds)
    /\ room_schedule' = EmptySchedule(RoomIds)
    /\ student_schedule' = EmptySchedule(StudentGroupIds)
    /\ timetable_entries' = << >>
    /\ returned' = << >>
    /\ UNCHANGED <<units, rooms, time_slots, db_timetable_entries,
                   validator, slotgen, aside>>

\* main.py lines 85-93: the handler deletes the stored entries, commits,
\* and calls generate_schedule, whose locals are fresh.
generate_timetable ==
    /\ pc = "http"
    /\ db_commits < MaxCommits
    /\ db_timetable_entries' = << >>
    /\ db_commits' = db_commits + 1
    /\ pc' = "idle"
    /\ sorted_units' = << >>
    /\ i' = 0
    /\ scheduled' = FALSE
    /\ attempts' = 0
    /\ max_attempts' = 0
    /\ lecturer_schedule' = EmptySchedule(LecturerIds)
    /\ room_schedule' = EmptySchedule(RoomIds)
    /\ student_schedule' = EmptySchedule(StudentGroupIds)
    /\ timetable_entries' = << >>
    /\ returned' = << >>
    /\ UNCHANGED <<units, rooms, time_slots, validator, slotgen, aside>>

\* main.py lines 95-100: the response, 200 with the count of entries or,
\* when generate_schedule raised, 500.
Respond ==
    /\ pc \in {"done", "raised"}
    /\ pc' = "http"
    /\ UNCHANGED <<store, sorted_units, i, scheduled, attempts, max_attempts,
                   lecturer_schedule, room_schedule, student_schedule,
                   timetable_entries, returned, validator, slotgen, aside>>

\* A server with no request yet and no stored entry.
InitH ==
    /\ \E shapes \in [1..2 -> HandlerShapes] : units = UnitRows(shapes)
    /\ rooms = ValidatorRooms
    /\ time_slots = SlotRows(SessionTypes)
    /\ db_timetable_entries = << >>
    /\ db_commits = 0
    /\ pc = "http"
    /\ sorted_units = << >>
    /\ i = 0
    /\ scheduled = FALSE
    /\ attempts = 0
    /\ max_attempts = 0
    /\ lecturer_schedule = EmptySchedule(LecturerIds)
    /\ room_schedule = EmptySchedule(RoomIds)
    /\ student_schedule = EmptySchedule(StudentGroupIds)
    /\ timetable_entries = << >>
    /\ returned = << >>
    /\ arg = << >>
    /\ InitValidator
    /\ InitSlotGen
    /\ InitAside

NextH ==
    \/ generate_timetable
    \/ GenerateStart
    \/ UnitSetup
    \/ TrialStep
    \/ GenerateFinish
    \/ Respond

SpecH == InitH /\ [][NextH]_vars

\* ------------------------------------------- runs over the generated catalog
\* Two units of department 1, year 1 and lecturer 1: the first needs no
\* lab, the second needs one.
BudgetUnits ==
    UnitRows(<< [department_id |-> 1, year_level |-> 1,
                 requires_lab |-> FALSE, lecturer_id |-> 1],
                [department_id |-> 1, year_level |-> 1,
                 requires_lab |-> TRUE, lecturer_id |-> 1] >>)

\* Six normal rooms and one lab with the catalog generate_time_slots
\* stores (120 candidate pairs for the unit needing no lab), or one
\* normal room and one lab with a single stored slot.
InitB ==
    /\ units = BudgetUnits
    /\ \/ rooms = RoomRows(6, 1) /\ time_slots = WithIds(generate_time_slots)
       \/ rooms = RoomRows(1, 1)
          /\ time_slots = WithIds(SubSeq(generate_time_slots, 1, 1))
    /\ db_timetable_entries = << >>
    /\ db_commits = 0
    /\ InitRun
    /\ arg = << >>
    /\ InitValidator
    /\ InitSlotGen
    /\ InitAside

NextB ==
    \/ GenerateStart
    \/ UnitSetup
    \/ TrialStep
    \/ GenerateFinish

SpecB == InitB /\ [][NextB]_vars

\* ------------------------------------------------- the end-to-end scenario
\* One unit that requires a lab, its lecturer and its student group, one
\* normal room and one lab, and the first ten spas_3h slots of the catalog.
LongSlots == 10

InitE ==
    /\ \E y \in {1, 2} : \E l \in LecturerIds :
          units = UnitRows(<< [department_id |-> 1, year_level |-> y,
                               requires_lab |-> TRUE, lecturer_id |-> l] >>)
    /\ rooms = RoomRows(1, 1)
    /\ time_slots =
          WithIds(SubSeq(SelectSeq(generate_time_slots,
                                   LAMBDA ts : ts.session_type = "spas_3h"),
                         1, LongSlots))
    /\ db_timetable_entries = << >>
    /\ db_commits = 0
    /\ InitRun
    /\ arg = << >>
    /\ InitValidator
    /\ InitSlotGen
    /\ InitAside

NextE ==
    \/ GenerateStart
    \/ UnitSetup
    \/ TrialStep
    \/ GenerateFinish
    \/ ValidateReturned

SpecE == InitE /\ [][NextE]_vars

\* --------------------------------------------------------- a dense snapshot
\* Up to DenseUnits units of one lecturer and one department, one normal
\* room and one lab, and the two stored spas_3h slots: each unit has two
\* candidate pairs and competes with the others for the two slot keys.
DenseUnits == 3

DenseShapes ==
    [department_id : {1}, year_level : {1, 2},
     requires_lab : BOOLEAN, lecturer_id : {1}]

InitD ==
    /\ \E shapes \in SeqsUpTo(DenseShapes, DenseUnits) :
          units = UnitRows(shapes)
    /\ rooms = RoomRows(1, 1)
    /\ time_slots = SlotRows({"spas_3h"})
    /\ db_timetable_entries = << >>
    /\ db_commits = 0
    /\ InitRun
    /\ arg = << >>
    /\ InitValidator
    /\ InitSlotGen
    /\ suspended = NoRun
    /\ trials = [counted |-> TRUE, made |-> 0]

NextD ==
    \/ GenerateStart
    \/ UnitSetup
    \/ TrialStep
    \/ GenerateFinish

SpecD == InitD /\ [][NextD]_vars

\* The call is one synchronous function: once entered, the interpreter
\* keeps executing its statements.
SpecDLive == SpecD /\ WF_vars(NextD)

\* ------------------------------------------- calls without a clear between
\* generate_schedule is called again on the same store: the caller keeps
\* the list the last call returned, the new call's locals are its own.
MaxRuns == 2

CallAgain ==
    /\ pc \in {"done", "raised"}
    /\ db_commits < MaxRuns
    /\ pc' = "idle"
    /\ sorted_units' = << >>
    /\ i' = 0
    /\ scheduled' = FALSE
    /\ attempts' = 0
    /\ max_attempts' = 0
    /\ lecturer_schedule' = EmptySchedule(LecturerIds)
    /\ room_schedule' = EmptySchedule(RoomIds)
    /\ student_schedule' = EmptySchedule(StudentGroupIds)
    /\ timetable_entries' = << >>
    /\ UNCHANGED <<store, returned, validator, slotgen, aside>>

InitR ==
    /\ \E shapes \in [1..2 -> HandlerShapes] : units = UnitRows(shapes)
    /\ rooms = ValidatorRooms
    /\ time_slots = SlotRows(SessionTypes)
    /\ db_timetable_entries = << >>
    /\ db_commits = 0
    /\ InitRun
    /\ arg = << >>
    /\ InitValidator
    /\ InitSlotGen
    /\ InitAside

NextR ==
    \/ GenerateStart
    \/ UnitSetup
    \/ TrialStep
    \/ GenerateFinish
    \/ CallAgain

SpecR == InitR /\ [][NextR]_vars

\* ------------------------------------------------------ two calls at a time
\* Lines 143-152: the locals of a call of generate_schedule, the occupancy
\* indexes among them, as a record.
Locals ==
    [pc |-> pc, sorted_units |-> sorted_units, i |-> i,
     scheduled |-> scheduled, attempts |-> attempts,
     max_attempts |-> max_attempts,
     lecturer_schedule |-> lecturer_schedule,
     room_schedule |-> room_schedule,
     student_schedule |-> student_schedule,
     timetable_entries |-> timetable_entries, returned |-> returned]

\* Mutant of Resumed: the two calls work on one index.
ResumedShared(own, held) == own

\* The index a call finds when it is resumed: own is the index of the call
\* that ran meanwhile, held the one the resumed call had when it stopped.
Resumed(own, held) == held

\* The call in hand is suspended and the other call goes on from where it
\* stopped, each with its own locals.
Switch ==
    /\ suspended # NoRun
    /\ suspended' = Locals
    /\ pc' = suspended.pc
    /\ sorted_units' = suspended.sorted_units
    /\ i' = suspended.i
    /\ scheduled' = suspended.scheduled
    /\ attempts' = suspended.attempts
    /\ max_attempts' = suspended.max_attempts
    /\ lecturer_schedule' =
          Resumed(lecturer_schedule, suspended.lecturer_schedule)
    /\ room_schedule' = Resumed(room_schedule, suspended.room_schedule)
    /\ student_schedule' =
          Resumed(student_schedule, suspended.student_schedule)
    /\ timetable_entries' = suspended.timetable_entries
    /\ returned' = suspended.returned
    /\ UNCHANGED <<store, validator, slotgen, trials>>

\* Two calls not yet begun on a store of two units of one lecturer and
\* department, one normal room, one lab and the two stored spas_3h slots.
InitI ==
    /\ \E shapes \in [1..2 -> DenseShapes] : units = UnitRows(shapes)
    /\ rooms = RoomRows(1, 1)
    /\ time_slots = SlotRows({"spas_3h"})
    /\ db_timetable_entries = << >>
    /\ db_commits = 0
    /\ InitRun
    /\ arg = << >>
    /\ InitValidator
    /\ InitSlotGen
    /\ suspended = Locals
    /\ trials = [counted |-> FALSE, made |-> 0]

NextI ==
    \/ GenerateStart
    \/ UnitSetup
    \/ TrialStep
    \/ GenerateFinish
    \/ Switch

SpecI == InitI /\ [][NextI]_vars

\* ------------------------------------------------- validation of longer lists
\* Lists of up to CountedEntries entries of unit 1, which needs a lab:
\* room 1 is normal, room 2 a lab and room 3 no stored row.
CountedEntries == 3

CountedShapes ==
    [unit_id : {1}, lecturer_id : LecturerIds, room_id : {1, 2, 3},
     time_slot_id : {1, 2}, student_group_id : {1, 2}]

InitN ==
    /\ units = ValidatorUnits
    /\ rooms = ValidatorRooms
    /\ time_slots = SlotRows(SessionTypes)
    /\ db_timetable_entries = << >>
    /\ db_commits = 0
    /\ InitRun
    /\ arg \in SeqsUpTo(CountedShapes, CountedEntries)
    /\ InitValidator
    /\ InitSlotGen
    /\ InitAside

NextN == ValidateArg

SpecN == InitN /\ [][NextN]_vars

\* ------------------------------------------------------------------ claims
Done == pc = "done"
Validated == vpc = "returned"

Pairs(s) == {<<a, b>> \in (1..Len(s)) \X (1..Len(s)) : a < b}

\* C1: no double-booking.  In the list generate_schedule returns no two
\* entries of one time_slot_id share their lecturer_id, their room_id or
\* their student_group_id.
C1_NoDoubleBooking ==
    Done =>
        \A p \in Pairs(returned) :
            LET a == returned[p[1]]
                b == returned[p[2]]
            IN  a.time_slot_id = b.time_slot_id =>
                    /\ a.lecturer_id # b.lecturer_id
                    /\ a.room_id # b.room_id
                    /\ a.student_group_id # b.student_group_id

\* C1 witness: a run returned two entries of one lecturer, the second
\* placed only after a trial of it had met a conflict.
C1_Witness ==
    /\ Done
    /\ Len(returned) = 2
    /\ returned[1].lecturer_id = returned[2].lecturer_id
    /\ returned[1].student_group_id # returned[2].student_group_id
    /\ scheduled /\ attempts > 1

\* C2: room-type compliance.  Every returned entry whose unit requires a
\* lab references a room of type "lab".
C2_RoomTypeCompliance ==
    Done =>
        \A k \in 1..Len(returned) :
            UnitById(returned[k].unit_id).requires_lab =>
                RoomById(returned[k].room_id).room_type = "lab"

\* C2 witness: a lab unit was placed although a normal room is stored too.
C2_Witness ==
    /\ Done
    /\ \E k \in 1..Len(returned) : UnitById(returned[k].unit_id).requires_lab
    /\ \E k \in 1..Len(rooms) : rooms[k].room_type = "normal"

\* C3: validator completeness on clean input.  validate_constraints on the
\* list generate_schedule returned gives is_valid = true and no conflict.
C3_GeneratedIsValid ==
    (Done /\ Validated /\ validated = returned) =>
        /\ validation.is_valid
        /\ validation.conflicts = << >>

\* C3 witness: the validated list is a returned list of two entries, one of
\* a lab unit, placed under contention.
C3_Witness ==
    /\ Done /\ Validated /\ validated = returned
    /\ Len(returned) = 2
    /\ \E k \in 1..2 : UnitById(returned[k].unit_id).requires_lab
    /\ returned[1].student_group_id = returned[2].student_group_id
    /\ attempts > 1

\* The ids of one resource class, named by a conflict's text, that the
\* entries of a time slot hold, and those of them held more than once.
ClassIds(entries, slot_id, text) ==
    LET es == SlotBookings(entries, slot_id)
    IN  [k \in 1..Len(es) |->
            IF text = LecturerText THEN es[k].lecturer_id
            ELSE IF text = RoomText THEN es[k].room_id
            ELSE es[k].student_group_id]

Repeated(ids) ==
    {x \in SeqElems(ids) : Cardinality({k \in DOMAIN ids : ids[k] = x}) >= 2}

ConflictSet == SeqElems(validation.conflicts)
DoubleBookingConflicts == {c \in ConflictSet : c.text # LabText}

\* C4: validator soundness.  When two entries of the validated list have
\* the same time_slot_id and the same lecturer_id (or room_id, or
\* student_group_id), is_valid is false and the conflict list holds the
\* double-booking conflict of that class for that time slot.
C4_ValidatorSoundness ==
    Validated =>
        \A p \in Pairs(validated) :
            LET a == validated[p[1]]
                b == validated[p[2]]
                Reported(text) ==
                    /\ ~validation.is_valid
                    /\ DoubleBooked(text, a.time_slot_id) \in ConflictSet
            IN  a.time_slot_id = b.time_slot_id =>
                    /\ a.lecturer_id = b.lecturer_id => Reported(LecturerText)
                    /\ a.room_id = b.room_id => Reported(RoomText)
                    /\ a.student_group_id = b.student_group_id =>
                           Reported(StudentText)

\* C4 witness: two validated entries share slot and room, and nothing else.
C4_Witness ==
    /\ Validated
    /\ Len(validated) = 2
    /\ validated[1].time_slot_id = validated[2].time_slot_id
    /\ validated[1].room_id = validated[2].room_id
    /\ validated[1].lecturer_id # validated[2].lecturer_id
    /\ validated[1].student_group_id # validated[2].student_group_id

C6_LabCheckEveryEntry ==
    Validated =>
        \A k \in 1..Len(validated) :
            LET unit == UnitById(validated[k].unit_id)
                room == RoomById(validated[k].room_id)
            IN  (/\ Found(unit) /\ Found(room)
                 /\ unit.requires_lab /\ room.room_type # "lab") =>
                    /\ ~validation.is_valid
                    /\ LabMismatch(unit, room) \in ConflictSet

\* C6 witness: the second of two entries in different time slots puts the
\* lab unit into the normal room; the first is in order.
C6_Witness ==
    /\ Validated
    /\ Len(validated) = 2
    /\ validated[1].time_slot_id # validated[2].time_slot_id
    /\ LabConflict(validated[1]) = << >>
    /\ LabConflict(validated[2]) # << >>

\* C7: validate_constraints never raises, and is_valid is true exactly
\* when the conflict list is empty.
C7_ValidIffNoConflict ==
    /\ vpc # "raised"
    /\ Validated => (validation.is_valid <=> validation.conflicts = << >>)

\* C7 witness: a validation that returned exactly one conflict.
C7_Witness ==
    /\ Validated
    /\ Len(validation.conflicts) = 1
    /\ ~validation.is_valid

\* C8: validate_constraints is read-only.  A step in which a call of it
\* returns leaves the stored tables, the state of a generation run (its
\* occupancy indexes and entries) and the caller's lists unchanged, and
\* the list passed is afterwards what it was.
C8_ValidateReadOnly ==
    [][(<<vpc, validated, validation>>' # <<vpc, validated, validation>>) =>
          /\ UNCHANGED <<store, run, arg, slotgen>>
          /\ validated' \in {arg, db_timetable_entries, returned}]_vars

\* C8 witness: a caller's entry has been validated and a run is in its
\* trial loop with an entry placed and its indexes occupied.
C8_Witness ==
    /\ Validated
    /\ validated # << >>
    /\ pc = "trial"
    /\ timetable_entries # << >>
    /\ \E l \in LecturerIds : lecturer_schedule[l] # {}

StructurallyEmpty == units = << >> \/ time_slots = << >> \/ rooms = << >>

\* C9: structural emptiness.  With no units, no time slots or no rooms,
\* generate_schedule returns the empty list without raising, makes no
\* trial and persists nothing.
C9_StructuralEmptiness ==
    StructurallyEmpty =>
        /\ pc \in {"idle", "done"}
        /\ Done => returned = << >>
        /\ attempts = 0
        /\ timetable_entries = << >>
        /\ db_commits = 0
        /\ db_timetable_entries = << >>

\* C9 witness: a call returned with units and time slots stored, no room.
C9_Witness ==
    /\ Done
    /\ rooms = << >>
    /\ units # << >>
    /\ time_slots # << >>

\* C10 as claimed: no fatal error in generation.  generate_schedule never
\* raises, whatever the snapshot, also for a unit whose department or
\* whose department's school cannot be resolved.
C10_NoFatalError == pc # "raised"

\* C11: attempt budget.  Every trial of a unit is within its budget of
\* min(100, candidate slots x candidate rooms) trials and is made only
\* while the unit is not yet placed; the trial that places the unit ends
\* its loop.  When the unit's only candidate slot and only candidate room
\* give an occupied slot key, its first trial is its last and the unit is
\* left without an entry.
C11_AttemptBudget ==
    [][pc = "trial" =>
          LET available_slots == AvailableSlots(UnitSession)
              suitable_rooms == SuitableRooms(Unit)
              n == Len(available_slots) * Len(suitable_rooms)
          IN  /\ ~scheduled
              /\ attempts' = attempts + 1
              /\ attempts' <= Min(AttemptCap, n)
              /\ timetable_entries' # timetable_entries =>
                    scheduled' /\ pc' = "loop" /\ i' = i + 1
              /\ (/\ n = 1
                  /\ Conflict(Unit, suitable_rooms[1], StudentGroupOf(Unit),
                              SlotKey(available_slots[1]))) =>
                    /\ attempts' = 1
                    /\ ~scheduled'
                    /\ pc' = "loop" /\ i' = i + 1
                    /\ timetable_entries' = timetable_entries]_vars

\* C11 witness: the second unit of a run had one candidate slot and one
\* candidate room, made one trial and has no entry.
C11_Witness ==
    /\ pc = "loop"
    /\ i = 3
    /\ max_attempts = 1
    /\ attempts = 1
    /\ ~scheduled
    /\ Len(timetable_entries) = 1

C13_Catalog ==
    tpc = "returned" =>
        /\ Len(catalog) = 50
        /\ \A k \in 1..Len(catalog) : catalog[k].day_of_week \in 1..5
        /\ \A d \in 1..5 :
              LET long == {k \in 1..Len(catalog) :
                              /\ catalog[k].day_of_week = d
                              /\ catalog[k].session_type = "spas_3h"}
                  short == {k \in 1..Len(catalog) :
                               /\ catalog[k].day_of_week = d
                               /\ catalog[k].session_type = "shs_2h"}
              IN  /\ Cardinality(long) = 4
                  /\ Cardinality(short) = 6
                  /\ {<<catalog[k].start_time, catalog[k].end_time>> :
                         k \in long} = SeqElems(spas_sessions)
                  /\ {<<catalog[k].start_time, catalog[k].end_time>> :
                         k \in short} = SeqElems(shs_sessions)

\* C13 witness: a second call of generate_time_slots has returned.
C13_Witness ==
    /\ tpc = "returned"
    /\ db_commits >= 2
    /\ time_slot_seq >= 100
    /\ Len(catalog) = 50

\* C14: generate_time_slots has no side effect.  No step of a call of it
\* changes the stored time slots or commits.
C14_NoSideEffect ==
    [][(tpc = "days" \/ tpc = "commit") =>
          (time_slots' = time_slots /\ db_commits' = db_commits)]_vars

\* C15: the stored entries are those of the last request.  Whenever no
\* request to POST /api/timetable/generate is being served and one has
\* been served, the stored timetable entries are exactly the entries the
\* last run returned (none when it raised), and no unit has two stored
\* entries.
C15_StoredIsLastRun ==
    (pc = "http" /\ db_commits > 0) =>
        /\ db_timetable_entries = returned
        /\ \A p \in Pairs(db_timetable_entries) :
              db_timetable_entries[p[1]].unit_id #
                 db_timetable_entries[p[2]].unit_id

\* C15 witness: two requests were served and each run stored entries of
\* both units.
C15_Witness ==
    /\ pc = "http"
    /\ db_commits = 4
    /\ Len(returned) = 2
    /\ Len(db_timetable_entries) = 2

\* The place of the unit with id uid in the list s of units.
UnitPos(s, uid) == CHOOSE k \in 1..Len(s) : s[k].id = uid

\* C16: priority order.  The order in which a run takes the units holds
\* every unit once, has every unit that requires a lab before every unit
\* that does not, within each class has ascending year levels, and keeps
\* the input order of units equal on both; entries exist only of units
\* taken before the unit in hand, and the entry list, accumulated and
\* returned, is in the order in which the units were taken.
C16_PriorityOrder ==
    /\ (pc # "idle" /\ sorted_units # << >>) =>
          /\ Len(sorted_units) = Len(units)
          /\ SeqElems(sorted_units) = SeqElems(units)
          /\ \A m \in 1..Len(sorted_units) :
             \A n \in (m + 1)..Len(sorted_units) :
                LET a == sorted_units[m]
                    b == sorted_units[n]
                IN  /\ b.requires_lab => a.requires_lab
                    /\ a.requires_lab = b.requires_lab =>
                          a.year_level <= b.year_level
                    /\ (/\ a.requires_lab = b.requires_lab
                        /\ a.year_level = b.year_level) =>
                          UnitPos(units, a.id) < UnitPos(units, b.id)
          /\ \A k \in 1..Len(timetable_entries) :
                UnitPos(sorted_units, timetable_entries[k].unit_id) < i
          /\ \A m \in 1..Len(timetable_entries) :
             \A n \in (m + 1)..Len(timetable_entries) :
                UnitPos(sorted_units, timetable_entries[m].unit_id)
                   < UnitPos(sorted_units, timetable_entries[n].unit_id)
    /\ (Done /\ sorted_units # << >>) => returned = timetable_entries

\* C16 witness: a run returned the entry of the second unit, which
\* requires a lab, before the entry of the first, which does not.
C16_Witness ==
    /\ Done
    /\ Len(returned) = 2
    /\ ~units[1].requires_lab
    /\ units[2].requires_lab
    /\ returned[1].unit_id = units[2].id
    /\ returned[2].unit_id = units[1].id

\* C17: coarse slot-key exclusion.  No two returned entries that share
\* their lecturer, their room or their student group have time slots of
\* one (day_of_week, start_time), whatever the ids, end times and session
\* types of the two slots.
C17_SlotKeyExclusion ==
    Done =>
        \A m \in 1..Len(returned) : \A n \in (m + 1)..Len(returned) :
            LET a == returned[m]
                b == returned[n]
                sa == TimeSlotById(a.time_slot_id)
                sb == TimeSlotById(b.time_slot_id)
            IN  (\/ a.lecturer_id = b.lecturer_id
                 \/ a.room_id = b.room_id
                 \/ a.student_group_id = b.student_group_id) =>
                    <<sa.day_of_week, sa.start_time>> #
                       <<sb.day_of_week, sb.start_time>>

\* C17 witness: two returned entries of one lecturer in slots of
\* different session types, the second placed after a trial of it met a
\* conflict (a slot of the other session type with the occupied start).
C17_Witness ==
    /\ Done
    /\ Len(returned) = 2
    /\ returned[1].lecturer_id = returned[2].lecturer_id
    /\ returned[1].room_id # returned[2].room_id
    /\ returned[1].student_group_id # returned[2].student_group_id
    /\ TimeSlotById(returned[1].time_slot_id).session_type #
          TimeSlotById(returned[2].time_slot_id).session_type
    /\ scheduled /\ attempts > 1

\* C18: no overlap in time.  Over the generated catalog no two returned
\* entries that share their lecturer, their room or their student group
\* have time slots of one day whose [start_time, end_time) intervals
\* overlap.
C18_NoOverlapInTime ==
    Done =>
        \A p \in Pairs(returned) :
            LET a == returned[p[1]]
                b == returned[p[2]]
                sa == TimeSlotById(a.time_slot_id)
                sb == TimeSlotById(b.time_slot_id)
            IN  (/\ \/ a.lecturer_id = b.lecturer_id
                    \/ a.room_id = b.room_id
                    \/ a.student_group_id = b.student_group_id
                 /\ sa.day_of_week = sb.day_of_week) =>
                    ~(sa.start_time < sb.end_time
                      /\ sb.start_time < sa.end_time)

\* C19: session-type resolution.  Every entry of a run references a
\* spas_3h slot when the department of its unit belongs to the school
\* with code SPAS, and a shs_2h slot for every other school.
C19_SessionType ==
    \A k \in 1..Len(timetable_entries) :
        LET entry == timetable_entries[k]
            school == SchoolOf(DepartmentOf(UnitById(entry.unit_id)))
            slot == TimeSlotById(entry.time_slot_id)
        IN  /\ Found(school)
            /\ school.code = "SPAS" => slot.session_type = "spas_3h"
            /\ school.code # "SPAS" => slot.session_type = "shs_2h"

\* C19 witness: a run returned an entry of a unit of school SPAS and an
\* entry of a unit of school SHS.
C19_Witness ==
    /\ Done
    /\ Len(returned) = 2
    /\ SchoolOf(DepartmentOf(UnitById(returned[1].unit_id))).code = "SPAS"
    /\ SchoolOf(DepartmentOf(UnitById(returned[2].unit_id))).code = "SHS"

\* The unit u finds no room of the type it needs, or no time slot of the
\* session type of its school.
NothingToTry(u) ==
    LET dept == DepartmentOf(u)
        school == SchoolOf(dept)
    IN  \/ \A k \in 1..Len(rooms) :
              rooms[k].room_type #
                 (IF u.requires_lab THEN "lab" ELSE "normal")
        \/ /\ Found(dept)
           /\ Found(school)
           /\ \A k \in 1..Len(time_slots) :
                 time_slots[k].session_type #
                    (IF school.code = "SPAS" THEN "spas_3h" ELSE "shs_2h")

\* C20: the room filter for units that need no lab.  Every entry of a
\* run whose unit does not require a lab references a normal room; a
\* unit that finds no room of its type or no slot of its session type
\* gets no trial and no entry, whatever other rooms and slots are stored.
C20_NormalRoomOrSkip ==
    /\ \A k \in 1..Len(timetable_entries) :
          LET entry == timetable_entries[k]
          IN  ~UnitById(entry.unit_id).requires_lab =>
                 RoomById(entry.room_id).room_type = "normal"
    /\ pc = "trial" => ~NothingToTry(Unit)
    /\ \A k \in 1..Len(timetable_entries) :
          ~NothingToTry(UnitById(timetable_entries[k].unit_id))

\* C20 witness: a run ended with no entry for its only unit, which needs
\* no lab and has its student group and slots of its session type, since
\* the only room stored is a lab.
C20_Witness ==
    /\ Done
    /\ Len(units) = 1
    /\ ~units[1].requires_lab
    /\ Found(StudentGroupOf(units[1]))
    /\ Len(rooms) = 1
    /\ rooms[1].room_type = "lab"
    /\ AvailableSlots(SessionTypeOf(SchoolOf(DepartmentOf(units[1]))))
          # << >>
    /\ i = 2
    /\ returned = << >>


\* ------------------------------------------------------------------- C21
\* No row of student_groups has the unit's department and year level.
NoGroup(u) ==
    ~\E k \in 1..Len(student_groups) :
        /\ student_groups[k].department_id = u.department_id
        /\ student_groups[k].year_level = u.year_level

\* C21: when the unit in hand has no student group of its department and
\* year level, the step of the run that handles it leaves the accumulated
\* entry list and the three occupancy indexes as they are and moves on to
\* the next unit of the priority order, the call still in its loop.
C21_NoGroupUnitSkipped ==
    [][(pc = "loop" /\ i <= Len(sorted_units) /\ NoGroup(sorted_units[i]))
        => (/\ timetable_entries' = timetable_entries
            /\ lecturer_schedule' = lecturer_schedule
            /\ room_schedule' = room_schedule
            /\ student_schedule' = student_schedule
            /\ pc' = "loop"
            /\ i' = i + 1)]_vars

\* A finished run that passed over a unit without a group and placed a
\* unit that comes after it in the priority order.
C21_Witness ==
    /\ pc = "done"
    /\ \E k \in 1..Len(sorted_units) : \E j \in (k + 1)..Len(sorted_units) :
          /\ NoGroup(sorted_units[k])
          /\ \A e \in 1..Len(returned) :
                returned[e].unit_id # sorted_units[k].id
          /\ \E e \in 1..Len(returned) :
                returned[e].unit_id = sorted_units[j].id

\* ------------------------------------------------------------------- C28
\* The slot keys of the committed entries whose field names the id.
KeysOf(entries, field, id) ==
    {<<TimeSlotById(entries[k].time_slot_id).day_of_week,
       TimeSlotById(entries[k].time_slot_id).start_time>> :
        k \in {n \in 1..Len(entries) : entries[n][field] = id}}

RECURSIVE KeysHeld(_, _)
KeysHeld(schedule, ids) ==
    IF ids = {} THEN 0
    ELSE LET id == CHOOSE x \in ids : TRUE
         IN  Cardinality(schedule[id]) + KeysHeld(schedule, ids \ {id})

\* C28: in every state of a run, each lecturer's set of the lecturer index
\* is the set of (day_of_week, start_time) keys of the committed entries of
\* that lecturer, likewise each room's set of the room index and each
\* student group's set of the student index, and each index holds in total
\* as many keys as there are committed entries.
C28_IndexesMatchEntries ==
    (pc = "loop" \/ pc = "trial" \/ pc = "done" \/ pc = "raised") =>
        /\ \A l \in LecturerIds :
              lecturer_schedule[l] = KeysOf(timetable_entries, "lecturer_id", l)
        /\ \A r \in RoomIds :
              room_schedule[r] = KeysOf(timetable_entries, "room_id", r)
        /\ \A g \in StudentGroupIds :
              student_schedule[g] =
                  KeysOf(timetable_entries, "student_group_id", g)
        /\ KeysHeld(lecturer_schedule, LecturerIds) = Len(timetable_entries)
        /\ KeysHeld(room_schedule, RoomIds) = Len(timetable_entries)
        /\ KeysHeld(student_schedule, StudentGroupIds) = Len(timetable_entries)

\* A run in its loop with two entries committed for one lecturer in
\* different rooms, whose set of the lecturer index holds two keys.
C28_Witness ==
    /\ pc = "loop"
    /\ Len(timetable_entries) = 2
    /\ timetable_entries[1].lecturer_id = timetable_entries[2].lecturer_id
    /\ timetable_entries[1].room_id # timetable_entries[2].room_id
    /\ Cardinality(lecturer_schedule[timetable_entries[1].lecturer_id]) = 2

\* ------------------------------------------------------------------- C29
StudentGroupById(gid) ==
    First(student_groups,
          {k \in 1..Len(student_groups) : student_groups[k].id = gid})

\* C29: in the list a call returned, no two entries are of one unit, each
\* entry carries the lecturer_id of its unit and a student group of the
\* unit's department and year level, and the entries are no more than the
\* stored units.
C29_OneEntryPerUnit ==
    pc = "done" =>
        /\ \A a, b \in 1..Len(returned) :
              returned[a].unit_id = returned[b].unit_id => a = b
        /\ \A a \in 1..Len(returned) :
              LET unit == UnitById(returned[a].unit_id)
                  student_group == StudentGroupById(returned[a].student_group_id)
              IN  /\ Found(unit)
                  /\ returned[a].lecturer_id = unit.lecturer_id
                  /\ Found(student_group)
                  /\ student_group.department_id = unit.department_id
                  /\ student_group.year_level = unit.year_level
        /\ Len(returned) <= Len(units)

\* A returned list with an entry for each of two units of different
\* lecturers, placed in a room whose id is not the lecturer's.
C29_Witness ==
    /\ pc = "done"
    /\ Len(returned) = 2
    /\ returned[1].lecturer_id # returned[2].lecturer_id
    /\ returned[1].room_id # returned[1].lecturer_id

\* ------------------------------------------------------------------- C22
\* Sequence s is an initial part of sequence t.
IsPrefix(s, t) == Len(s) <= Len(t) /\ SubSeq(t, 1, Len(s)) = s

\* Every set of the index is contained in its set after the step.
Grows(schedule, schedule_after, ids) ==
    \A id \in ids : schedule[id] \subseteq schedule_after[id]

\* C22: in every step of a run the accumulated entry list only gets
\* longer at its end, its earlier entries staying as they are, and every
\* set of the three occupancy indexes keeps its keys; the step that spends
\* a unit's last trial without placing it leaves the list and the indexes
\* as they are and moves on to the next unit.
C22_NoBacktracking ==
    [][(pc = "loop" \/ pc = "trial") =>
          (/\ IsPrefix(timetable_entries, timetable_entries')
           /\ Grows(lecturer_schedule, lecturer_schedule', LecturerIds)
           /\ Grows(room_schedule, room_schedule', RoomIds)
           /\ Grows(student_schedule, student_schedule', StudentGroupIds)
           /\ (pc = "trial" /\ pc' = "loop" /\ ~scheduled') =>
                 (/\ timetable_entries' = timetable_entries
                  /\ lecturer_schedule' = lecturer_schedule
                  /\ room_schedule' = room_schedule
                  /\ student_schedule' = student_schedule
                  /\ i' = i + 1))]_vars

\* A finished run over three units: the first was placed, the second
\* spent its budget without an entry, the third was placed after it.
C22_Witness ==
    /\ pc = "done"
    /\ Len(sorted_units) = 3
    /\ Len(returned) = 2
    /\ returned[1].unit_id = sorted_units[1].id
    /\ returned[2].unit_id = sorted_units[3].id
    /\ trials.made = 4

FreePair(u) ==
    LET dept == DepartmentOf(u)
        available_slots == AvailableSlots(SessionTypeOf(SchoolOf(dept)))
        suitable_rooms == SuitableRooms(u)
    IN  \E s \in 1..Len(available_slots) : \E r \in 1..Len(suitable_rooms) :
            ~Conflict(u, suitable_rooms[r], StudentGroupOf(u),
                      SlotKey(available_slots[s]))

\* C27: a unit is given up by the count of its trials alone: the trial
\* that draws an occupied pair when one trial of the budget is left ends
\* the unit's loop without an entry, whether or not another pair of its
\* candidate lists is free.
C27_GivenUpByCount ==
    [][(/\ pc = "trial"
        /\ attempts + 1 = max_attempts
        /\ timetable_entries' = timetable_entries) =>
          (pc' = "loop" /\ i' = i + 1 /\ ~scheduled')]_vars

\* The second unit has just been given up, its budget of two trials
\* spent, while a pair of its candidate lists is free of conflicts.
C27_Witness ==
    /\ pc = "loop"
    /\ i = 3
    /\ ~scheduled
    /\ attempts = max_attempts
    /\ max_attempts = 2
    /\ Len(timetable_entries) = 1
    /\ timetable_entries[1].unit_id = sorted_units[1].id
    /\ FreePair(sorted_units[2])

\* ------------------------------------------------------------------- C24
\* C24: the stored timetable entries change only in the step that ends a
\* call of generate_schedule, and there they become the entries stored
\* before followed by the entries the call returns; a call deletes and
\* rewrites none of them.
C24_StoredPlusReturned ==
    [][IF pc = "loop" /\ pc' = "done"
       THEN db_timetable_entries' = db_timetable_entries \o returned'
       ELSE db_timetable_entries' = db_timetable_entries]_vars

\* Two calls without a clear between them, each returning two entries:
\* the four entries of both calls are stored.
C24_Witness ==
    /\ pc = "done"
    /\ db_commits = 2
    /\ Len(returned) = 2
    /\ Len(db_timetable_entries) = 4
    /\ SubSeq(db_timetable_entries, 3, 4) = returned
    /\ SubSeq(db_timetable_entries, 1, 2) # returned

\* ------------------------------------------------------------------- C25
\* No two entries of the list in slots of one (day_of_week, start_time)
\* share their lecturer, their room or their student group.
NoSharedBooking(entries) ==
    \A a, b \in 1..Len(entries) :
        (/\ a # b
         /\ TimeSlotById(entries[a].time_slot_id).day_of_week =
               TimeSlotById(entries[b].time_slot_id).day_of_week
         /\ TimeSlotById(entries[a].time_slot_id).start_time =
               TimeSlotById(entries[b].time_slot_id).start_time)
        => /\ entries[a].lecturer_id # entries[b].lecturer_id
           /\ entries[a].room_id # entries[b].room_id
           /\ entries[a].student_group_id # entries[b].student_group_id

\* C25: with two calls of generate_schedule interleaved, the steps of the
\* call in hand leave the other call's three occupancy indexes as they
\* are, the call that is resumed finds the indexes it had when it was
\* suspended, so that its conflict tests give what they would have given
\* without the other call; and the list each call returned, and the list
\* each has accumulated, is free of double-bookings.
C25_IndexesPrivate ==
    /\ [][IF suspended' = suspended
          THEN TRUE
          ELSE /\ lecturer_schedule' = suspended.lecturer_schedule
               /\ room_schedule' = suspended.room_schedule
               /\ student_schedule' = suspended.student_schedule
               /\ suspended'.lecturer_schedule = lecturer_schedule
               /\ suspended'.room_schedule = room_schedule
               /\ suspended'.student_schedule = student_schedule]_vars
    /\ [](/\ NoSharedBooking(returned)
          /\ NoSharedBooking(suspended.returned)
          /\ NoSharedBooking(timetable_entries)
          /\ NoSharedBooking(suspended.timetable_entries))

\* Both calls are in a trial loop, each has committed one entry, and the
\* two entries are in the same slot and the same room: the placement of
\* one call did not make the other call's test find a conflict.
C25_Witness ==
    /\ pc = "trial"
    /\ suspended.pc = "trial"
    /\ Len(timetable_entries) = 1
    /\ Len(suspended.timetable_entries) = 1
    /\ timetable_entries[1].time_slot_id =
          suspended.timetable_entries[1].time_slot_id
    /\ timetable_entries[1].room_id = suspended.timetable_entries[1].room_id

\* ------------------------------------------------------------------- C26
ResourceClasses == {LecturerText, RoomText, StudentText}

\* The (time slot, resource class) pairs with an id of the class held by
\* two or more of the slot's entries.
RepeatedPairs(entries) ==
    {p \in {entries[k].time_slot_id : k \in 1..Len(entries)}
           \X ResourceClasses :
        Repeated(ClassIds(entries, p[1], p[2])) # {}}

\* The entries whose unit and room are stored rows, the unit requiring a
\* lab and the room not being one.
LabMismatches(entries) ==
    {k \in 1..Len(entries) :
        /\ Found(UnitById(entries[k].unit_id))
        /\ Found(RoomById(entries[k].room_id))
        /\ UnitById(entries[k].unit_id).requires_lab
        /\ RoomById(entries[k].room_id).room_type # "lab"}

\* How often the conflict occurs in the returned list.
Occurrences(conflict) ==
    Cardinality({k \in 1..Len(validation.conflicts) :
                    validation.conflicts[k] = conflict})

\* C26: the conflicts validate_constraints returns are as many as the
\* (time slot, resource class) pairs in which an id of the class occurs at
\* least twice among the slot's entries, plus the entries whose stored
\* unit requires a lab and whose stored room is not a lab; a slot with
\* three entries of one lecturer gives one lecturer conflict.
C26_ConflictCount ==
    Validated =>
        /\ Len(validation.conflicts) =
              Cardinality(RepeatedPairs(validated))
              + Cardinality(LabMismatches(validated))
        /\ \A p \in RepeatedPairs(validated) :
              Occurrences(DoubleBooked(p[2], p[1])) = 1

\* Three validated entries of lecturer 1 in time slot 1, in the three
\* rooms: one lecturer conflict, and one lab conflict for the entry in
\* the normal room.
C26_Witness ==
    /\ Validated
    /\ Len(validated) = 3
    /\ \A k \in 1..3 : /\ validated[k].lecturer_id = 1
                       /\ validated[k].time_slot_id = 1
                       /\ validated[k].room_id = k
    /\ Occurrences(DoubleBooked(LecturerText, 1)) = 1
    /\ Occurrences(DoubleBooked(RoomText, 1)) = 0
    /\ Cardinality(LabMismatches(validated)) = 1

\* ------------------------------------------------------------------- C30
\* C30 as claimed: whenever a request to POST /api/initialize/sample-data
\* or POST /api/debug/regenerate-time-slots has been served and none is
\* being served, 50 time slots are stored, no two of them of one
\* (day_of_week, start_time, session_type).
C30_FiftyStoredSlots ==
    ((tpc = "idle" \/ tpc = "returned") /\ db_commits > 0) =>
        /\ Len(time_slots) = 50
        /\ \A a, b \in 1..Len(time_slots) :
              (/\ time_slots[a].day_of_week = time_slots[b].day_of_week
               /\ time_slots[a].start_time = time_slots[b].start_time
               /\ time_slots[a].session_type = time_slots[b].session_type)
              => a = b

\* ------------------------------------------------------------------- C31
\* C31: every lab conflict validate_constraints returns names the code of
\* a stored unit that requires a lab and the name of a stored room that is
\* no lab, the unit and the room of one validated entry; an entry whose
\* unit_id or room_id is no stored row gives none, so that a list with no
\* id repeated in a time slot whose lab units are all in labs or in rooms
\* that are not stored is reported valid, with no conflict.
C31_LabCheckNeedsBothRows ==
    Validated =>
        /\ \A c \in ConflictSet :
              c.text = LabText =>
                 \E k \in 1..Len(validated) :
                    LET unit == UnitById(validated[k].unit_id)
                        room == RoomById(validated[k].room_id)
                    IN  /\ Found(unit) /\ Found(room)
                        /\ unit.requires_lab /\ room.room_type # "lab"
                        /\ c.unit_code = unit.code
                        /\ c.room_name = room.name
        /\ (/\ RepeatedPairs(validated) = {}
            /\ \A k \in 1..Len(validated) :
                  \/ ~Found(UnitById(validated[k].unit_id))
                  \/ ~Found(RoomById(validated[k].room_id))
                  \/ ~UnitById(validated[k].unit_id).requires_lab
                  \/ RoomById(validated[k].room_id).room_type = "lab")
           => (validation.is_valid /\ validation.conflicts = << >>)

\* Two validated entries in different time slots: the lab unit in a room
\* that is no stored row, and a unit that is no stored row in the normal
\* room; the list is reported valid.
C31_Witness ==
    /\ Validated
    /\ Len(validated) = 2
    /\ validated[1].time_slot_id # validated[2].time_slot_id
    /\ Found(UnitById(validated[1].unit_id))
    /\ UnitById(validated[1].unit_id).requires_lab
    /\ ~Found(RoomById(validated[1].room_id))
    /\ ~Found(UnitById(validated[2].unit_id))
    /\ Found(RoomById(validated[2].room_id))
    /\ RoomById(validated[2].room_id).room_type = "normal"
    /\ validation.is_valid

\* ------------------------------------------------------------------- C32
\* No key is held by any set of the three occupancy indexes.
IndexesEmpty ==
    /\ \A l \in LecturerIds : lecturer_schedule[l] = {}
    /\ \A r \in RoomIds : room_schedule[r] = {}
    /\ \A g \in StudentGroupIds : student_schedule[g] = {}

\* C32: a trial made while the three occupancy indexes are empty is the
\* first trial of its unit and places it, whichever slot and room are
\* drawn: the unit's entry is committed, its loop ends after one pass and
\* the run moves on to the next unit.
C32_FirstUnitPlacedAtOnce ==
    [][(pc = "trial" /\ IndexesEmpty) =>
          (/\ attempts = 0
           /\ attempts' = 1
           /\ scheduled'
           /\ timetable_entries = << >>
           /\ Len(timetable_entries') = 1
           /\ timetable_entries'[1].unit_id = sorted_units[i].id
           /\ pc' = "loop"
           /\ i' = i + 1)]_vars

\* The first unit of the priority order had no student group and was
\* passed over; the second, the first to reach the trial loop, has been
\* placed by its first trial.
C32_Witness ==
    /\ pc = "loop"
    /\ i = 3
    /\ NoGroup(sorted_units[1])
    /\ Len(timetable_entries) = 1
    /\ timetable_entries[1].unit_id = sorted_units[2].id
    /\ scheduled
    /\ attempts = 1
    /\ max_attempts > 1

=============================================================================
